---- MODULE Spec2Model ----
(***************************************************************************)
(* Model of the LSTM training / prediction pipeline of ml/data.py,         *)
(* ml/train_lstm.py and ml/predict_lstm.py.                                *)
(*                                                                         *)
(*   Spec      the operator runs the train and predict commands one after  *)
(*             another against one model directory; a training process may *)
(*             be interrupted at any step.                                 *)
(*   SpecLoop  one training run in a fresh directory, from the head of the *)
(*             epoch loop, for every epoch budget, patience and validation *)
(*             accuracy curve within the bounds.                           *)
(*   SpecData  the pure functions of data.py applied to every dataset      *)
(*             within the bounds.                                          *)
(*                                                                         *)
(* Numbers: feature values are integers or NaN; means and variances are    *)
(* exact reduced fractions <<num, den>>; a standard deviation is kept as   *)
(* the fraction under its square root.  Accuracies are integers in units   *)
(* of 1/AccScale.  Split fractions are exact fractions <<num, den>>.       *)
(***************************************************************************)
EXTENDS Integers, Sequences, FiniteSets, TLC

(* ---------------------------------------------------------------------- *)
(* Bounds of the model                                                     *)
(* ---------------------------------------------------------------------- *)
MaxRows == 4
MaxSeqLen == 2
MaxEpochs == 5
MaxPatience == 2

(* ---------------------------------------------------------------------- *)
(* data.py                                                                 *)
(* ---------------------------------------------------------------------- *)
FEATURES ==
  << "Score", "Ts", "avgTs", "compVolPct", "compSentPct", "TVolComp",
     "MVolComp", "close", "volume", "ret1" >>

FeatureNames == { FEATURES[i] : i \in 1..Len(FEATURES) }

LABEL == "y_up"

(* A cell of the table is << v >> for the number v and << >> (NaN) for a   *)
(* missing one.                                                            *)
NaN == << >>

Num(v) == << v >>

TickerOrder == << "AAPL", "MSFT" >>

Tickers == { TickerOrder[i] : i \in 1..Len(TickerOrder) }

TickerRank(t) == CHOOSE i \in 1..Len(TickerOrder) : TickerOrder[i] = t

(* Python's a[i:j] on a sequence: negative indices count from the end,     *)
(* out-of-range indices are clamped, an empty range gives the empty list.  *)
PyIdx(i, n) ==
  IF i < 0 THEN (IF i + n < 0 THEN 0 ELSE i + n)
  ELSE (IF i > n THEN n ELSE i)

PySlice(s, a, b) == SubSeq(s, PyIdx(a, Len(s)) + 1, PyIdx(b, Len(s)))

(* Python's int(): truncation toward zero, of the fraction a/b with b > 0. *)
PyInt(a, b) == IF a >= 0 THEN a \div b ELSE -((-a) \div b)

RECURSIVE Gcd(_, _)
Gcd(a, b) == IF b = 0 THEN a ELSE Gcd(b, a % b)

Abs(a) == IF a < 0 THEN -a ELSE a

Reduce(n, d) ==
  LET g == Gcd(Abs(n), d) IN << n \div g, d \div g >>

RECURSIVE SumSeq(_)
SumSeq(s) == IF s = << >> THEN 0 ELSE Head(s) + SumSeq(Tail(s))

(* Stable insertion of a row into a list sorted by (ticker, date).        *)
RowLess(r, q) ==
  \/ TickerRank(r.ticker) < TickerRank(q.ticker)
  \/ r.ticker = q.ticker /\ r.date < q.date

RECURSIVE InsertRow(_, _)
InsertRow(sorted, r) ==
  IF sorted = << >> THEN << r >>
  ELSE IF RowLess(r, Head(sorted)) THEN << r >> \o sorted
  ELSE << Head(sorted) >> \o InsertRow(Tail(sorted), r)

RECURSIVE SortRows(_)
SortRows(s) ==
  IF s = << >> THEN << >>
  ELSE InsertRow(SortRows(SubSeq(s, 1, Len(s) - 1)), s[Len(s)])

(* load_dataset: drop the rows without a label, keep the tickers asked    *)
(* for (an empty filter keeps all), sort by (ticker, date).                *)
load_dataset(csv, tickers) ==
  LET labelled == SelectSeq(csv, LAMBDA r : r.y # NaN)
      kept == IF tickers = {} THEN labelled
              ELSE SelectSeq(labelled, LAMBDA r : r.ticker \in tickers)
  IN  SortRows(kept)

(* A slip in the second cut: taken from val_frac alone.                   *)
time_split_val_cut(df, tf, vf) ==
  LET n == Len(df)
      cut1 == PyInt(n * tf[1], tf[2])
      cut2 == PyInt(n * vf[1], vf[2])
  IN  [ train |-> PySlice(df, 0, cut1),
        val   |-> PySlice(df, cut1, cut2),
        test  |-> PySlice(df, cut2, n) ]

(* time_split with train_frac = tf and val_frac = vf, both <<num, den>>.   *)
time_split(df, tf, vf) ==
  LET n == Len(df)
      cut1 == PyInt(n * tf[1], tf[2])
      cut2 == PyInt(n * (tf[1] * vf[2] + vf[1] * tf[2]), tf[2] * vf[2])
  IN  [ train |-> PySlice(df, 0, cut1),
        val   |-> PySlice(df, cut1, cut2),
        test  |-> PySlice(df, cut2, n) ]

(* The finite values of one feature column (np.inf is no value of the     *)
(* model; NaN is skipped by nanmean and nanstd).                           *)
Column(df, c) == [ i \in 1..Len(df) |-> df[i].x[c] ]

Finite(col) == SelectSeq(col, LAMBDA v : v # NaN)

Values(col) == [ i \in 1..Len(col) |-> col[i][1] ]

Squares(v) == [ i \in 1..Len(v) |-> v[i] * v[i] ]

(* mean and std of one column: mean NaN and std 1 for a column without a  *)
(* value; std floored to 1 when the deviation is not above 1e-12, which   *)
(* for integer values is the case of zero variance.                        *)
FeatureStats(col) ==
  LET v == Values(Finite(col))
      n == Len(v)
      s == SumSeq(v)
      q == SumSeq(Squares(v))
      varnum == n * q - s * s
  IN  IF n = 0 THEN [ mean |-> NaN, std |-> << 1, 1 >> ]
      ELSE [ mean |-> Reduce(s, n),
             std  |-> IF varnum > 0 THEN Reduce(varnum, n * n) ELSE << 1, 1 >> ]

fit_standardizer(train_df) ==
  [ c \in FeatureNames |-> FeatureStats(Column(train_df, c)) ]

(* One standardized value (x - mean) / std, kept as the exact numerator   *)
(* num/den over the square root of the fraction sd; a NaN result becomes   *)
(* 0, written 0/1 over 1.                                                  *)
Zero == [ num |-> 0, den |-> 1, sd |-> << 1, 1 >> ]

Standardize(x, st) ==
  IF x = NaN \/ st.mean = NaN THEN Zero
  ELSE LET z == Reduce(x[1] * st.mean[2] - st.mean[1], st.mean[2])
       IN  IF z[1] = 0 THEN Zero ELSE [ num |-> z[1], den |-> z[2], sd |-> st.std ]

apply_standardizer(df, stats) ==
  [ i \in 1..Len(df) |->
      [ df[i] EXCEPT !.x = [ c \in FeatureNames |-> Standardize(df[i].x[c], stats[c]) ] ] ]

(* The rows of one ticker, in the order of the frame (groupby, then       *)
(* reset_index).                                                           *)
Group(df, tkr) == SelectSeq(df, LAMBDA r : r.ticker = tkr)

Feats(g) == [ i \in 1..Len(g) |-> g[i].x ]

Labels(g) == [ i \in 1..Len(g) |-> g[i].y ]

(* The windows of one group: t runs over range(seq_len - 1, len(g)); the  *)
(* window is feats[t - seq_len + 1 : t + 1] and the label labels[t].  A    *)
(* negative t indexes labels from the end; below -len(g) it is an         *)
(* IndexError.                                                             *)
(* A slip in the label: the label of the row before the window's last.    *)
RECURSIVE GroupWindowsLabelBefore(_, _, _)
GroupWindowsLabelBefore(g, seq_len, t) ==
  IF t > Len(g) - 1 THEN << >>
  ELSE << [ X |-> PySlice(Feats(g), t - seq_len + 1, t + 1),
            y |-> IF t >= 1 THEN Labels(g)[t] ELSE Labels(g)[Len(g)],
            ok |-> TRUE ] >>
       \o GroupWindowsLabelBefore(g, seq_len, t + 1)

RECURSIVE GroupWindows(_, _, _)
GroupWindows(g, seq_len, t) ==
  IF t > Len(g) - 1 THEN << >>
  ELSE << [ X |-> PySlice(Feats(g), t - seq_len + 1, t + 1),
            y |-> IF t >= 0 THEN Labels(g)[t + 1]
                  ELSE IF t + Len(g) >= 0 THEN Labels(g)[t + Len(g) + 1]
                  ELSE NaN,
            ok |-> t + Len(g) >= 0 ] >>
       \o GroupWindows(g, seq_len, t + 1)

RECURSIVE AllWindows(_, _, _)
AllWindows(df, seq_len, k) ==
  IF k > Len(TickerOrder) THEN << >>
  ELSE LET g == Group(df, TickerOrder[k])
       IN  (IF g = << >> THEN << >> ELSE GroupWindows(g, seq_len, seq_len - 1))
           \o AllWindows(df, seq_len, k + 1)

(* make_sequences: the windows of every group, groups in key order.       *)
(* labels[t] out of range raises IndexError while the windows are built;  *)
(* np.stack raises ValueError when the windows differ in shape.            *)
make_sequences(df, seq_len) ==
  LET w == AllWindows(df, seq_len, 1)
      firstBad == { i \in 1..Len(w) : ~w[i].ok }
      ragged == \E i, j \in 1..Len(w) : Len(w[i].X) # Len(w[j].X)
  IN  IF firstBad # {} THEN [ error |-> "IndexError", seqs |-> << >> ]
      ELSE IF ragged THEN [ error |-> "ValueError", seqs |-> << >> ]
      ELSE [ error |-> "none",
             seqs |-> [ i \in 1..Len(w) |-> [ X |-> w[i].X, y |-> w[i].y ] ] ]


(* ---------------------------------------------------------------------- *)
(* train_lstm.py: the decisions of the epoch loop                          *)
(* ---------------------------------------------------------------------- *)
(* Accuracies are counted in units of 1/AccScale, so the margin 1e-4 of    *)
(* the improvement test is Margin = 1 unit.                                *)
AccScale == 10000
Margin == 1

TRAIN_FRAC == << 7, 10 >>
VAL_FRAC == << 3, 20 >>

(* A slip: the improvement test without its margin.                        *)
ImprovedNoMargin(va_acc, best) == va_acc > best

(* if va_acc > best_val_acc + 1e-4                                         *)
Improved(va_acc, best) == va_acc > best + Margin

(* A slip: the decrement of patience_left is lost.                         *)
PatienceKept(left) == left

(* patience_left -= 1                                                      *)
PatienceAfterMiss(left) == left - 1

(* A slip: the loop stops one miss early.                                  *)
StopEarlyOneOff(left) == left <= 1

(* if patience_left <= 0: break                                            *)
StopEarly(left) == left <= 0

(* A slip: the statistics are fit on the whole frame.                      *)
StatsOfWholeFrame(frame, sp) == fit_standardizer(frame)

(* stats = fit_standardizer(df_train)                                      *)
StatsOfRun(frame, sp) == fit_standardizer(sp.train)

(* ---------------------------------------------------------------------- *)
(* State                                                                   *)
(* ---------------------------------------------------------------------- *)
VARIABLES
  pc,            \* trainer: position in main() ("idle": no training process)
  args,          \* trainer: the parsed command line
  curve,         \* trainer: the validation accuracy evaluate() returns in each epoch
  df,            \* trainer: the loaded frame
  split,         \* trainer: df_train, df_val, df_test
  stats,         \* trainer: the standardization statistics
  X,             \* trainer: the train / val / test sequences
  epoch,         \* trainer: epochs trained so far
  best_val_acc,  \* trainer
  patience_left, \* trainer
  model,         \* trainer: the parameters in memory
  te,            \* trainer: the test evaluations made and the accuracy found
  err,           \* trainer: the exception that ended the run
  scalerFile,    \* outdir/scaler.json
  modelFile,     \* outdir/model.pt
  metaFile,      \* outdir/meta.json
  ppc,           \* predictor: position in main()
  pmeta,         \* predictor: meta
  pstats,        \* predictor: stats
  pX,            \* predictor: the sequences to score
  pmodel,        \* predictor: the parameters loaded
  perr,          \* predictor: the exception that ended it
  fits,          \* history: every fit made, as [csv, train, stats]
  task           \* SpecData: one call of a function of data.py and its result

trainVars == << pc, args, curve, df, split, stats, X, epoch, best_val_acc,
                patience_left, model, te, err >>

loopVars == << epoch, best_val_acc, patience_left, model, te >>

fileVars == << scalerFile, modelFile, metaFile >>

predVars == << ppc, pmeta, pstats, pX, pmodel, perr >>

vars == << trainVars, fileVars, predVars, fits, task >>

(* ---------------------------------------------------------------------- *)
(* Values                                                                  *)
(* ---------------------------------------------------------------------- *)
Uniform(v) == [ c \in FeatureNames |-> Num(v) ]

Row(tkr, d, x, y) == [ ticker |-> tkr, date |-> d, x |-> x, y |-> y ]

(* The CSV files of the session, rows in file order (newest first, one row *)
(* without a label).  Both hold the same first nine rows per (ticker,      *)
(* date), which are the train slice; they differ in the later rows.        *)
CommonRows ==
  [ i \in 1..9 |->
      Row("AAPL", 10 - i,
          IF 10 - i = 4 THEN [ Uniform((10 - i) % 3) EXCEPT !["Score"] = NaN ]
          ELSE Uniform((10 - i) % 3),
          Num((10 - i) % 2)) ]

CsvRows(csv) ==
  IF csv = "base.csv"
  THEN << Row("MSFT", 14, Uniform(2), NaN), Row("MSFT", 13, Uniform(2), Num(1)),
          Row("MSFT", 12, Uniform(2), Num(0)), Row("AAPL", 11, Uniform(1), Num(1)),
          Row("AAPL", 10, Uniform(1), Num(0)) >> \o CommonRows
  ELSE << Row("MSFT", 13, Uniform(9), Num(1)), Row("AAPL", 12, Uniform(9), Num(0)),
          Row("AAPL", 11, Uniform(7), Num(1)), Row("AAPL", 10, Uniform(7), Num(0)) >>
       \o CommonRows

CsvFiles == { "base.csv", "late.csv" }

(* hidden, layers and dropout (in tenths) a session trains with.           *)
HyperParams ==
  { [ hidden |-> 64, layers |-> 1, dropout |-> 1 ],
    [ hidden |-> 32, layers |-> 1, dropout |-> 1 ],
    [ hidden |-> 64, layers |-> 1, dropout |-> 5 ] }

SeqLens == (-1)..MaxSeqLen

(* Validation accuracies: 0, 0.50, 0.5001 (within the margin of 0.50) and  *)
(* 0.51.                                                                   *)
AccValues ==
  { 0, AccScale \div 2, AccScale \div 2 + Margin, (51 * AccScale) \div 100 }

SessionEpochs == { 0, 1, 2 }

SessionPatience == { 1 }

SessionAccs == { 0, AccScale \div 2 }

NoSplit == [ train |-> << >>, val |-> << >>, test |-> << >> ]

NoSeqs == [ error |-> "none", seqs |-> << >> ]

NoArgs ==
  [ csv |-> "none", seq_len |-> 30, hidden |-> 64, layers |-> 1, dropout |-> 1,
    epochs |-> 30, patience |-> 5 ]

NoStats == [ c \in FeatureNames |-> [ mean |-> NaN, std |-> << 1, 1 >> ] ]

NoX == [ tr |-> << >>, va |-> << >>, te |-> << >> ]

(* Parameters are named by the architecture they belong to, the dropout    *)
(* they were trained with, the number of epochs behind them and whether    *)
(* the running training process produced them.                             *)
NoParams ==
  [ in_features |-> 0, hidden |-> 0, layers |-> 0, dropout |-> 0, epoch |-> 0, own |-> FALSE ]

(* The accuracy evaluate() finds on the test sequences is a number the   *)
(* model does not compute: "te_acc".                                       *)
NoTe == [ evals |-> 0, acc |-> "none", of |-> NoParams ]

NoFile == [ state |-> "absent", params |-> NoParams ]

NoScaler == [ state |-> "absent", stats |-> NoStats ]

NoMeta ==
  [ state |-> "absent", features |-> << >>, label |-> "", seq_len |-> 0, hidden |-> 0,
    layers |-> 0, dropout |-> 0, test_accuracy |-> "none" ]

(* LSTMClassifier(in_features, hidden_size, num_layers, dropout), new.     *)
LSTMClassifier(in_features, hidden_size, num_layers, dropout) ==
  [ in_features |-> in_features, hidden |-> hidden_size, layers |-> num_layers,
    dropout |-> dropout, epoch |-> 0, own |-> TRUE ]

(* load_state_dict is strict: the keys and shapes of the saved parameters  *)
(* follow from in_features, hidden_size and num_layers; dropout has no     *)
(* parameter.                                                              *)
StateDictFits(params, in_features, hidden_size, num_layers) ==
  /\ params.in_features = in_features
  /\ params.hidden = hidden_size
  /\ params.layers = num_layers

NoTask ==
  [ op |-> "none", df |-> << >>, tf |-> TRAIN_FRAC, vf |-> VAL_FRAC, seq_len |-> 1,
    done |-> FALSE, split |-> NoSplit, out |-> NoSeqs ]

(* ---------------------------------------------------------------------- *)
(* train_lstm.py main()                                                    *)
(* ---------------------------------------------------------------------- *)
TrainerIdle ==
  /\ pc = "idle" /\ args = NoArgs /\ curve = << >> /\ df = << >> /\ split = NoSplit
  /\ stats = NoStats /\ X = NoX /\ epoch = 0 /\ best_val_acc = 0 /\ patience_left = 0
  /\ model = NoParams /\ te = NoTe /\ err = "none"

PredictorIdle ==
  /\ ppc = "idle" /\ pmeta = NoMeta /\ pstats = NoStats /\ pX = << >>
  /\ pmodel = NoParams /\ perr = "none"

Init ==
  /\ TrainerIdle /\ PredictorIdle
  /\ scalerFile = NoScaler /\ modelFile = NoFile /\ metaFile = NoMeta
  /\ fits = {} /\ task = NoTask

(* for epoch in range(1, args.epochs+1): the next position at the head.    *)
LoopHead(e, a) == IF e < a.epochs THEN "epoch" ELSE "load"

Fail(e) == pc' = "failed" /\ err' = e

(* Lines 64-72: parse, load the dataset, split it.                         *)
StartTrain(csv, hp, seq_len, epochs, patience, c) ==
  /\ pc = "idle" /\ ppc = "idle"
  /\ pc' = "split"
  /\ args' = [ csv |-> csv, seq_len |-> seq_len, hidden |-> hp.hidden, layers |-> hp.layers,
               dropout |-> hp.dropout, epochs |-> epochs, patience |-> patience ]
  /\ curve' = c
  /\ df' = load_dataset(CsvRows(csv), {})
  /\ split' = time_split(df', TRAIN_FRAC, VAL_FRAC)
  /\ UNCHANGED << stats, X, loopVars, err, fileVars, predVars, fits, task >>

(* Lines 75-77: fit on the train slice, save scaler.json.                  *)
FitSave ==
  /\ pc = "split"
  /\ stats' = StatsOfRun(df, split)
  /\ scalerFile' = [ state |-> "complete", stats |-> stats' ]
  /\ fits' = fits \cup { [ csv |-> args.csv, train |-> split.train, stats |-> stats' ] }
  /\ pc' = "scaled"
  /\ UNCHANGED << args, curve, df, split, X, loopVars, err, modelFile, metaFile,
                  predVars, task >>

(* Lines 79-104: standardize the three slices, build the sequences, check  *)
(* that train and validation have some, build the model.                   *)
Sequences ==
  /\ pc = "scaled"
  /\ LET tr == make_sequences(apply_standardizer(split.train, stats), args.seq_len)
         va == make_sequences(apply_standardizer(split.val, stats), args.seq_len)
         tt == make_sequences(apply_standardizer(split.test, stats), args.seq_len)
         failed == { r \in { tr, va, tt } : r.error # "none" }
     IN  IF failed # {}
         THEN /\ Fail(IF tr.error # "none" THEN tr.error
                      ELSE IF va.error # "none" THEN va.error ELSE tt.error)
              /\ UNCHANGED << X, loopVars >>
         ELSE /\ X' = [ tr |-> tr.seqs, va |-> va.seqs, te |-> tt.seqs ]
              /\ IF Len(tr.seqs) = 0 \/ Len(va.seqs) = 0
                 THEN Fail("RuntimeError: Not enough data") /\ UNCHANGED loopVars
                 ELSE /\ model' = LSTMClassifier(Len(FEATURES), args.hidden, args.layers,
                                                 args.dropout)
                      /\ best_val_acc' = 0
                      /\ patience_left' = args.patience
                      /\ pc' = LoopHead(0, args)
                      /\ UNCHANGED << epoch, te, err >>
  /\ UNCHANGED << args, curve, df, split, stats, fileVars, predVars, fits, task >>

(* Lines 105-108: train_one and evaluate.  The LSTM rejects sequences of   *)
(* length zero.                                                            *)
TrainEpoch ==
  /\ pc = "epoch"
  /\ IF Len(X.tr[1].X) = 0
     THEN Fail("RuntimeError: sequence length") /\ UNCHANGED << epoch, model >>
     ELSE /\ epoch' = epoch + 1
          /\ model' = [ model EXCEPT !.epoch = epoch + 1 ]
          /\ pc' = "decide"
          /\ UNCHANGED err
  /\ UNCHANGED << args, curve, df, split, stats, X, best_val_acc, patience_left, te,
                  fileVars, predVars, fits, task >>

(* Lines 110-118.  torch.save opens model.pt for writing and then writes   *)
(* it: the file is partial until the write is done.                        *)
Decide ==
  /\ pc = "decide"
  /\ IF Improved(curve[epoch], best_val_acc)
     THEN /\ best_val_acc' = curve[epoch]
          /\ patience_left' = args.patience
          /\ modelFile' = [ state |-> "partial", params |-> NoParams ]
          /\ pc' = "saving"
     ELSE /\ patience_left' = PatienceAfterMiss(patience_left)
          /\ pc' = IF StopEarly(patience_left') THEN "load" ELSE LoopHead(epoch, args)
          /\ UNCHANGED << best_val_acc, modelFile >>
  /\ UNCHANGED << args, curve, df, split, stats, X, epoch, model, te, err, scalerFile,
                  metaFile, predVars, fits, task >>

SaveDone ==
  /\ pc = "saving"
  /\ modelFile' = [ state |-> "complete", params |-> model ]
  /\ pc' = LoopHead(epoch, args)
  /\ UNCHANGED << args, curve, df, split, stats, X, loopVars, err, scalerFile, metaFile,
                  predVars, fits, task >>

(* Line 121: model.load_state_dict(torch.load(model.pt)).                  *)
LoadBest ==
  /\ pc = "load"
  /\ IF modelFile.state = "absent"
     THEN Fail("FileNotFoundError") /\ UNCHANGED model
     ELSE IF modelFile.state = "partial"
     THEN Fail("UnpicklingError") /\ UNCHANGED model
     ELSE IF ~StateDictFits(modelFile.params, Len(FEATURES), args.hidden, args.layers)
     THEN Fail("RuntimeError: state_dict") /\ UNCHANGED model
     ELSE model' = modelFile.params /\ pc' = "test" /\ UNCHANGED err
  /\ UNCHANGED << args, curve, df, split, stats, X, epoch, best_val_acc, patience_left,
                  te, fileVars, predVars, fits, task >>

(* Lines 122-123: evaluate on the test sequences; without any, total is 0  *)
(* and loss_sum/total divides by zero; the LSTM rejects sequences of       *)
(* length zero.                                                            *)
TestEval ==
  /\ pc = "test"
  /\ IF Len(X.te) = 0
     THEN Fail("ZeroDivisionError") /\ UNCHANGED te
     ELSE IF Len(X.te[1].X) = 0
     THEN Fail("RuntimeError: sequence length") /\ UNCHANGED te
     ELSE /\ te' = [ evals |-> te.evals + 1, acc |-> "te_acc", of |-> model ]
          /\ pc' = "meta"
          /\ UNCHANGED err
  /\ UNCHANGED << args, curve, df, split, stats, X, epoch, best_val_acc, patience_left,
                  model, fileVars, predVars, fits, task >>

MetaOf(a, t) ==
  [ state |-> "complete", features |-> FEATURES, label |-> LABEL, seq_len |-> a.seq_len,
    hidden |-> a.hidden, layers |-> a.layers, dropout |-> a.dropout,
    test_accuracy |-> t.acc ]

(* Lines 126-136.                                                          *)
SaveMeta ==
  /\ pc = "meta"
  /\ metaFile' = MetaOf(args, te)
  /\ pc' = "done"
  /\ UNCHANGED << args, curve, df, split, stats, X, loopVars, err, scalerFile, modelFile,
                  predVars, fits, task >>

Running == { "split", "scaled", "epoch", "decide", "saving", "load", "test", "meta" }

(* The memory of a process that is gone.                                   *)
Forgotten ==
  /\ args' = NoArgs /\ curve' = << >> /\ df' = << >> /\ split' = NoSplit
  /\ stats' = NoStats /\ X' = NoX /\ epoch' = 0 /\ best_val_acc' = 0 /\ patience_left' = 0
  /\ model' = NoParams /\ te' = NoTe /\ err' = "none"

(* The training process is interrupted (killed, power loss): its memory   *)
(* is lost, the files stay as they are.                                    *)
Kill ==
  /\ pc \in Running
  /\ pc' = "killed"
  /\ Forgotten
  /\ UNCHANGED << fileVars, predVars, fits, task >>

(* The command has returned; the files stay.  What model.pt holds was not *)
(* written by the next process.                                            *)
ExitTrain ==
  /\ pc \in { "done", "failed", "killed" }
  /\ pc' = "idle"
  /\ Forgotten
  /\ modelFile' = [ modelFile EXCEPT !.params.own = FALSE ]
  /\ UNCHANGED << scalerFile, metaFile, predVars, fits, task >>

(* ---------------------------------------------------------------------- *)
(* predict_lstm.py main()                                                  *)
(* ---------------------------------------------------------------------- *)
PFail(e) == ppc' = "failed" /\ perr' = e

(* Lines 16-29: load meta.json and scaler.json, load and standardize the   *)
(* dataset, build the sequences.                                           *)
StartPredict(csv, tickers) ==
  /\ pc = "idle" /\ ppc = "idle"
  /\ IF metaFile.state = "absent" \/ scalerFile.state = "absent"
     THEN PFail("FileNotFoundError") /\ UNCHANGED << pmeta, pstats, pX >>
     ELSE /\ pmeta' = metaFile
          /\ pstats' = scalerFile.stats
          /\ LET out == make_sequences(
                          apply_standardizer(load_dataset(CsvRows(csv), tickers), pstats'),
                          pmeta'.seq_len)
             IN  IF out.error # "none" THEN PFail(out.error) /\ UNCHANGED pX
                 ELSE /\ pX' = out.seqs
                      /\ ppc' = IF Len(out.seqs) = 0 THEN "nothing" ELSE "seqs"
                      /\ UNCHANGED perr
  /\ UNCHANGED << trainVars, fileVars, pmodel, fits, task >>

(* Lines 31-34: build the model the metadata describes, load model.pt.     *)
PredictLoad ==
  /\ ppc = "seqs"
  /\ IF modelFile.state = "absent"
     THEN PFail("FileNotFoundError") /\ UNCHANGED pmodel
     ELSE IF modelFile.state = "partial"
     THEN PFail("UnpicklingError") /\ UNCHANGED pmodel
     ELSE IF ~StateDictFits(modelFile.params, Len(FEATURES), pmeta.hidden, pmeta.layers)
     THEN PFail("RuntimeError: state_dict") /\ UNCHANGED pmodel
     ELSE pmodel' = modelFile.params /\ ppc' = "loaded" /\ UNCHANGED perr
  /\ UNCHANGED << trainVars, fileVars, pmeta, pstats, pX, fits, task >>

(* Lines 36-45: probabilities and predictions of every sequence.           *)
PredictScore ==
  /\ ppc = "loaded"
  /\ ppc' = "scored"
  /\ UNCHANGED << trainVars, fileVars, pmeta, pstats, pX, pmodel, perr, fits, task >>

ExitPredict ==
  /\ ppc \in { "scored", "nothing", "failed" }
  /\ ppc' = "idle" /\ pmeta' = NoMeta /\ pstats' = NoStats /\ pX' = << >>
  /\ pmodel' = NoParams /\ perr' = "none"
  /\ UNCHANGED << trainVars, fileVars, fits, task >>

TickerFilters == { {}, { "MSFT" } }

Next ==
  \/ \E csv \in CsvFiles, hp \in HyperParams, s \in SeqLens, e \in SessionEpochs,
        p \in SessionPatience :
       \E c \in [1..e -> SessionAccs] : StartTrain(csv, hp, s, e, p, c)
  \/ FitSave
  \/ Sequences
  \/ TrainEpoch
  \/ Decide
  \/ SaveDone
  \/ LoadBest
  \/ TestEval
  \/ SaveMeta
  \/ Kill
  \/ ExitTrain
  \/ \E csv \in CsvFiles, tickers \in TickerFilters : StartPredict(csv, tickers)
  \/ PredictLoad
  \/ PredictScore
  \/ ExitPredict

Spec == Init /\ [][Next]_vars

(* ---------------------------------------------------------------------- *)
(* SpecLoop: one run in a fresh directory, from the head of the loop       *)
(* ---------------------------------------------------------------------- *)
LoopArgs(e, p) ==
  [ csv |-> "base.csv", seq_len |-> 1, hidden |-> 64, layers |-> 1, dropout |-> 1,
    epochs |-> e, patience |-> p ]

InitLoop ==
  /\ df = load_dataset(CsvRows("base.csv"), {})
  /\ split = time_split(df, TRAIN_FRAC, VAL_FRAC)
  /\ stats = StatsOfRun(df, split)
  /\ scalerFile = [ state |-> "complete", stats |-> stats ]
  /\ fits = { [ csv |-> "base.csv", train |-> split.train, stats |-> stats ] }
  /\ X = [ tr |-> make_sequences(apply_standardizer(split.train, stats), 1).seqs,
           va |-> make_sequences(apply_standardizer(split.val, stats), 1).seqs,
           te |-> make_sequences(apply_standardizer(split.test, stats), 1).seqs ]
  /\ model = LSTMClassifier(Len(FEATURES), 64, 1, 1)
  /\ epoch = 0 /\ best_val_acc = 0 /\ te = NoTe /\ err = "none"
  /\ modelFile = NoFile /\ metaFile = NoMeta
  /\ PredictorIdle
  /\ task = NoTask
  /\ \E e \in 0..MaxEpochs, p \in 0..MaxPatience :
       /\ args = LoopArgs(e, p)
       /\ patience_left = p
       /\ pc = LoopHead(0, args)
       /\ \E c \in [1..e -> AccValues] : curve = c

NextLoop == TrainEpoch \/ Decide \/ SaveDone \/ LoadBest \/ TestEval \/ SaveMeta

SpecLoop == InitLoop /\ [][NextLoop]_vars

(* ---------------------------------------------------------------------- *)
(* SpecData: time_split and make_sequences on every dataset in the bounds  *)
(* ---------------------------------------------------------------------- *)
FeatVecs == { Uniform(1), [ Uniform(1) EXCEPT !["Score"] = Num(3) ] }

LabelValues == { Num(0), Num(1) }

(* The frames load_dataset can return: sorted by ticker, then by date.    *)
SortedTickers(n) ==
  { tk \in [1..n -> Tickers] :
      \A i \in 1..n, j \in 1..n : i < j => TickerRank(tk[i]) <= TickerRank(tk[j]) }

Datasets ==
  UNION { { [ i \in 1..n |-> [ ticker |-> tk[i], date |-> i, x |-> fv[i], y |-> lb[i] ] ] :
              tk \in SortedTickers(n), fv \in [1..n -> FeatVecs], lb \in [1..n -> LabelValues] } :
          n \in 0..MaxRows }

Fractions == { << 0, 1 >>, << 3, 20 >>, << 1, 2 >>, << 7, 10 >>, << 1, 1 >> }

InitData ==
  /\ TrainerIdle /\ PredictorIdle
  /\ scalerFile = NoScaler /\ modelFile = NoFile /\ metaFile = NoMeta
  /\ fits = {}
  /\ \E d \in Datasets :
    \/ \E tf \in Fractions, vf \in Fractions :
         task = [ NoTask EXCEPT !.op = "time_split", !.df = d, !.tf = tf, !.vf = vf ]
    \/ \E s \in SeqLens :
         task = [ NoTask EXCEPT !.op = "make_sequences", !.df = d, !.seq_len = s ]

CallTimeSplit ==
  /\ task.op = "time_split" /\ ~task.done
  /\ task' = [ task EXCEPT !.done = TRUE, !.split = time_split(task.df, task.tf, task.vf) ]
  /\ UNCHANGED << trainVars, fileVars, predVars, fits >>

CallMakeSequences ==
  /\ task.op = "make_sequences" /\ ~task.done
  /\ task' = [ task EXCEPT !.done = TRUE, !.out = make_sequences(task.df, task.seq_len) ]
  /\ UNCHANGED << trainVars, fileVars, predVars, fits >>

NextData == CallTimeSplit \/ CallMakeSequences

SpecData == InitData /\ [][NextData]_vars


(* ---------------------------------------------------------------------- *)
(* Properties of data.py (SpecData)                                        *)
(* ---------------------------------------------------------------------- *)
ValidFractions(tf, vf) ==
  /\ 0 < tf[1] /\ tf[1] < tf[2]
  /\ 0 < vf[1] /\ vf[1] < vf[2]
  /\ tf[1] * vf[2] + vf[1] * tf[2] < tf[2] * vf[2]

GroupIndices(d, k) == { i \in 1..Len(d) : d[i].ticker = TickerOrder[k] }

RECURSIVE SortedIndices(_)
SortedIndices(S) ==
  IF S = {} THEN << >>
  ELSE LET m == CHOOSE a \in S : \A b \in S : a <= b
       IN  << m >> \o SortedIndices(S \ {m})

WindowCount(d, k, S) ==
  LET L == Cardinality(GroupIndices(d, k))
  IN  IF L - S + 1 > 0 THEN L - S + 1 ELSE 0

WindowOffset(d, k, S) == SumSeq([ j \in 1..(k - 1) |-> WindowCount(d, j, S) ])

(* C7: for seq_len S >= 1 a ticker group of length L yields exactly         *)
(* max(0, L-S+1) sequences; the i-th (0-based) is the group's rows          *)
(* [i .. i+S-1] in order, rows of one ticker only, and is labelled with the *)
(* label of the group's row S-1+i.                                          *)
C7_SlidingWindows ==
  (task.op = "make_sequences" /\ task.done /\ task.seq_len >= 1) =>
    LET d == task.df
        S == task.seq_len
        out == task.out
    IN  /\ out.error = "none"
        /\ Len(out.seqs) = WindowOffset(d, Len(TickerOrder) + 1, S)
        /\ \A k \in 1..Len(TickerOrder) :
             LET rows == SortedIndices(GroupIndices(d, k))
             IN  \A i \in 0..(WindowCount(d, k, S) - 1) :
                   LET q == out.seqs[WindowOffset(d, k, S) + i + 1]
                   IN  /\ q.X = [ j \in 1..S |-> d[rows[i + j]].x ]
                       /\ q.y = d[rows[S + i]].y

C7_Witness ==
  /\ task.op = "make_sequences" /\ task.done /\ task.seq_len = 2
  /\ Cardinality(GroupIndices(task.df, 1)) = 3
  /\ Cardinality(GroupIndices(task.df, 2)) = 1
  /\ Len(task.out.seqs) = 2
  /\ task.out.seqs[1] # task.out.seqs[2]


(* ---------------------------------------------------------------------- *)
(* Properties of the epoch loop (SpecLoop)                                 *)
(* ---------------------------------------------------------------------- *)
(* The rule of the improvement test, folded over the first k accuracies of *)
(* a curve: the best accuracy on record, and the last epoch that passed.   *)
RECURSIVE BestAfter(_, _)
BestAfter(c, k) ==
  IF k = 0 THEN 0
  ELSE LET b == BestAfter(c, k - 1) IN IF c[k] > b + Margin THEN c[k] ELSE b

Passed(c, e) == c[e] > BestAfter(c, e - 1) + Margin

LastPassed(c, k) ==
  LET S == { e \in 1..k : Passed(c, e) }
  IN  IF S = {} THEN 0 ELSE CHOOSE e \in S : \A f \in S : f <= e

(* The same with a strict comparison and no margin.                       *)
RECURSIVE MaxAfter(_, _)
MaxAfter(c, k) ==
  IF k = 0 THEN 0
  ELSE LET b == MaxAfter(c, k - 1) IN IF c[k] > b THEN c[k] ELSE b

LastRecord(c, k) ==
  LET S == { e \in 1..k : c[e] > MaxAfter(c, e - 1) }
  IN  IF S = {} THEN 0 ELSE CHOOSE e \in S : \A f \in S : f <= e

LoopOver ==
  \/ pc \in { "load", "test", "meta", "done" }
  \/ pc = "failed" /\ err \in { "FileNotFoundError", "UnpicklingError",
                                "RuntimeError: state_dict", "ZeroDivisionError" }

(* C1: for patience >= 1 the loop never runs more than the epoch budget    *)
(* and never more than patience+1 epochs beyond the last epoch whose       *)
(* validation accuracy passed val_acc > best_val_acc + 1e-4.               *)
C1_EarlyStopBound ==
  args.patience >= 1 =>
    /\ epoch <= args.epochs
    /\ epoch <= LastPassed(curve, epoch) + args.patience + 1

C1_Witness ==
  /\ pc = "load" /\ args.patience >= 1
  /\ epoch < args.epochs
  /\ LastPassed(curve, epoch) >= 2
  /\ epoch = LastPassed(curve, epoch) + args.patience

ScenarioC ==
  /\ args.patience = 2 /\ args.epochs >= 4
  /\ SubSeq(curve, 1, 4) = << 5000, 5100, 5100, 5100 >>

(* C2 as stated: with validation accuracies 0.50, 0.51, 0.51, 0.51,        *)
(* patience 2 and a budget of at least 4, epoch 3 is the last trained.     *)
C2_StopsAfterEpoch3 == (ScenarioC /\ LoopOver) => epoch = 3

(* C2 as amended: in that scenario epoch 4 is the last epoch trained       *)
(* (epoch 2 improves on epoch 1, epochs 3 and 4 are the two misses).       *)
C2_StopsAfterEpoch4 == (ScenarioC /\ LoopOver) => epoch = 4

C2_Witness ==
  /\ ScenarioC /\ pc = "load" /\ epoch = 4 /\ args.epochs > 4 /\ patience_left = 0

Settled == pc \in { "epoch", "load", "test", "meta", "done", "failed" }

CheckpointOf(a, e) ==
  IF e = 0 THEN NoFile
  ELSE [ state |-> "complete",
         params |-> [ LSTMClassifier(Len(FEATURES), a.hidden, a.layers, a.dropout)
                        EXCEPT !.epoch = e ] ]

(* C5 as stated: model.pt is written in an epoch exactly when its          *)
(* validation accuracy is strictly above the best seen so far, so after    *)
(* every epoch it holds the parameters of the epoch of the best accuracy.  *)
C5_WrittenOnStrictImprovement ==
  /\ Settled => modelFile = CheckpointOf(args, LastRecord(curve, epoch))
  /\ pc = "decide" => modelFile = CheckpointOf(args, LastRecord(curve, epoch - 1))

(* C5 as amended: model.pt is written in an epoch exactly when             *)
(* val_acc > best_val_acc + 1e-4, best_val_acc being the accuracy of the   *)
(* last epoch written (0.0 before any), and is left alone in every other   *)
(* epoch and after the loop; after every epoch it holds the parameters of  *)
(* the last epoch that passed that test (no file if none did), and no      *)
(* accuracy seen so far is more than 1e-4 above that epoch's.              *)
C5_WrittenOnMarginImprovement ==
  /\ Settled =>
       /\ modelFile = CheckpointOf(args, LastPassed(curve, epoch))
       /\ best_val_acc = BestAfter(curve, epoch)
       /\ \A e \in 1..epoch : curve[e] <= best_val_acc + Margin
       /\ LastPassed(curve, epoch) > 0 => curve[LastPassed(curve, epoch)] = best_val_acc
  /\ pc = "decide" => modelFile = CheckpointOf(args, LastPassed(curve, epoch - 1))
  /\ pc = "saving" => modelFile.state = "partial" /\ Passed(curve, epoch)

C5_Witness ==
  /\ pc = "load" /\ epoch >= 3
  /\ modelFile = CheckpointOf(args, 1)
  /\ curve[2] > curve[1]
  /\ curve[3] < curve[1]


(* ---------------------------------------------------------------------- *)
(* Properties of the session (Spec)                                        *)
(* ---------------------------------------------------------------------- *)
(* C3: model.pt is never a partially written file, not even while a save   *)
(* is under way or after the training process was interrupted in it.       *)
C3_CheckpointWriteAtomic == modelFile.state # "partial"

PastZeroSequenceCheck ==
  \/ pc \in { "epoch", "decide", "saving", "load", "test", "meta", "done" }
  \/ pc = "failed" /\ err \in { "RuntimeError: sequence length", "FileNotFoundError",
                                "UnpicklingError", "RuntimeError: state_dict",
                                "ZeroDivisionError" }

(* C4: a run that passed the zero-sequence check ends with the best        *)
(* checkpoint it saved itself reloaded, one evaluation on the test         *)
(* sequences made and the metadata written (stated for runs with a         *)
(* positive seq_len and at least one epoch).                               *)
C4_ReloadEvaluatePersist ==
  (args.seq_len >= 1 /\ args.epochs >= 1 /\ PastZeroSequenceCheck
     /\ pc \in { "done", "failed" }) =>
    /\ pc = "done"
    /\ model.own /\ model.epoch = LastPassed(curve, epoch) /\ model.epoch >= 1
    /\ te.evals = 1
    /\ metaFile = MetaOf(args, te)

AfterFit ==
  pc \in { "scaled", "epoch", "decide", "saving", "load", "test", "meta", "done", "failed" }

(* C6: two fits whose train slices are the same rows give the same         *)
(* statistics, whatever the later rows of their datasets; after its one    *)
(* fit the trainer keeps the statistics it saved, and the predictor uses   *)
(* the saved statistics of a fit as they are.                              *)
C6_StatsFromTrainOnly ==
  /\ \A f \in fits, g \in fits : f.train = g.train => f.stats = g.stats
  /\ AfterFit =>
       /\ [ csv |-> args.csv, train |-> split.train, stats |-> stats ] \in fits
       /\ scalerFile = [ state |-> "complete", stats |-> stats ]
  /\ scalerFile.state = "complete" => \E f \in fits : f.stats = scalerFile.stats
  /\ ppc \in { "seqs", "nothing", "loaded", "scored" } =>
       /\ pstats = scalerFile.stats
       /\ \E f \in fits : f.stats = pstats

C6_Witness ==
  /\ \E f \in fits, g \in fits :
       /\ f.csv # g.csv /\ f.train = g.train
       /\ load_dataset(CsvRows(f.csv), {}) # load_dataset(CsvRows(g.csv), {})
  /\ ppc = "scored"
  /\ stats = NoStats

(* C9: a run with a non-positive seq_len fails with ConfigError before     *)
(* anything is computed: no split, no fit, no sequence, no epoch.          *)
C9_ConfigErrorFirst ==
  (args.seq_len <= 0 /\ pc \notin { "idle", "killed" }) =>
    /\ pc = "failed" /\ err = "ConfigError"
    /\ split = NoSplit /\ stats = NoStats /\ X = NoX /\ epoch = 0
    /\ scalerFile.state = "absent"

(* C10: the predictor scores only with parameters whose feature count,     *)
(* hidden width, layer count and dropout are those of the metadata it      *)
(* loaded.                                                                 *)
C10_PredictsOnlyOnMatch ==
  ppc = "scored" =>
    /\ pmodel.in_features = Len(pmeta.features)
    /\ pmodel.hidden = pmeta.hidden
    /\ pmodel.layers = pmeta.layers
    /\ pmodel.dropout = pmeta.dropout

====
